---- MODULE Spec2Model ----
(***************************************************************************)
(* Model of plugins/modules/vmware_drs_override.py: an Ansible module that *)
(* sets the DRS behaviour override of one VM in its vSphere cluster.       *)
(*                                                                         *)
(* The program is main(): AnsibleModule(...) parses the parameters,        *)
(* VmwareDrsOverride.__init__ looks the VM up and checks the endpoint,     *)
(* set_drs_override reads the cluster's drsVmConfig, compares, submits one *)
(* ReconfigureCluster_Task and waits for it in wait_for_task.  The vCenter *)
(* side (task progress, the cluster configuration) is the environment.     *)
(* Every remote property read (task.info.state) is a separate step, since  *)
(* the task may progress between two reads.                                *)
(***************************************************************************)
EXTENDS Naturals, FiniteSets

\* ---- bounds of the model ----
\* number of module invocations (playbook runs) in one behaviour
MaxCalls == 2
\* saturation of the counter of iterations of the wait loop
MaxPolls == 2

\* ---- values of the program ----
\* choices of drs_behavior
Behaviors == {"manual", "partiallyAutomated", "fullyAutomated"}
\* VMs that exist in the inventory of the endpoint
Inventory == {"vm1", "vm2"}
\* values of vm_name a playbook may pass: "ghost" names no VM; vm2 is a
\* neighbour of vm1 in the cluster that no playbook of the model targets
Names == {"vm1", "ghost"}
\* fault / localizedMessage texts the server may report
Msgs == {"m1", "m2"}
\* vim.TaskInfo.State, and "none" for a task that was never created
TaskStates == {"none", "queued", "running", "success", "error"}

NoTask == [state |-> "none", key |-> "none", operation |-> "none", behavior |-> "none", msg |-> "none"]
NoRequest == [operation |-> "none", key |-> "none", behavior |-> "none"]
NoResult == [kind |-> "none", changed |-> FALSE, msg |-> "none"]

VARIABLES
    drsVmConfig,   \* cluster.configuration.drsVmConfig: VM -> "absent" or its override
    tasks,         \* the task created by each invocation, as the server holds it
    call,          \* number of the current invocation (0: none yet)
    pc,            \* position of the current invocation in the code
    vm_name,       \* params['vm_name']
    drs_behavior,  \* params['drs_behavior']
    check_mode,    \* module.check_mode
    is_vcenter,    \* what is_vcenter() answers for the endpoint
    vm,            \* self.vm
    existing,      \* existing_config read at line 100 ("unread" before)
    request,       \* the DrsVmConfigSpec handed to ReconfigureCluster_Task
    submitted,     \* ReconfigureCluster_Task calls made by this invocation
    observed,      \* task.info.state as read at line 127
    polls,         \* iterations of the loop of line 125 (saturating)
    result,        \* how the invocation ended
    sameArgs,      \* history: every invocation so far had the same vm_name and drs_behavior
    firstChanged,  \* history: first invocation that returned changed=True (0: none)
    totalSubmits   \* history: ReconfigureCluster_Task calls made by all invocations

vars == <<drsVmConfig, tasks, call, pc, vm_name, drs_behavior, check_mode, is_vcenter,
          vm, existing, request, submitted, observed, polls, result,
          sameArgs, firstChanged, totalSubmits>>

remoteVars == <<drsVmConfig, tasks>>
argVars == <<call, vm_name, drs_behavior, check_mode, is_vcenter>>
histVars == <<sameArgs, firstChanged, totalSubmits>>

\* ---- pure parts of the code ----

\* PyVmomi.get_vm() with params['name'] = vm_name (lines 88-89)
get_vm(name) == IF name \in Inventory THEN name ELSE "None"

\* next((config for config in drsVmConfig if config.key == self.vm), None), line 100
FindExisting_AnyKey(cfg, key) ==
    IF \E k \in Inventory : k # key /\ cfg[k] # "absent"
    THEN cfg[CHOOSE k \in Inventory : k # key /\ cfg[k] # "absent"]
    ELSE cfg[key]
FindExisting(cfg, key) == cfg[key]

\* existing_config and existing_config.behavior == self.drs_behavior, line 101
AlreadyDesired_Default(e, want) == e # "absent" /\ e = "manual"
AlreadyDesired(e, want) == e # "absent" /\ e = want

\* vim.cluster.DrsVmConfigSpec(operation='add', info=DrsVmConfigInfo(key, enabled, behavior)), lines 105-112
DrsVmConfigSpec_Default(key, want) == [operation |-> "add", key |-> key, behavior |-> "manual"]
DrsVmConfigSpec(key, want) == [operation |-> "add", key |-> key, behavior |-> want]

\* the loop condition of wait_for_task, line 125
StillRunning(state) == state = "running"

\* task.info.state == vim.TaskInfo.State.success, line 127
TaskSucceeded_NotError(state) == state # "error"
TaskSucceeded(state) == state = "success"

\* module.exit_json(changed=..., msg=...): the process ends with a result
exit_json(changed, msg) == [kind |-> "exit_json", changed |-> changed, msg |-> msg]
\* module.fail_json(msg=...): the process ends with failed=True
fail_json(msg) == [kind |-> "fail_json", changed |-> FALSE, msg |-> msg]
\* an exception no handler catches: the process ends with a traceback
uncaught(msg) == [kind |-> "uncaught", changed |-> FALSE, msg |-> msg]

\* task, the local of set_drs_override bound at line 118 (no task before the call)
task == IF call = 0 THEN NoTask ELSE tasks[call]

\* polls + 1, saturating at MaxPolls
Sat(n) == IF n < MaxPolls THEN n + 1 ELSE n

TypeOK ==
    /\ drsVmConfig \in [Inventory -> Behaviors \cup {"absent"}]
    /\ \A c \in 1..MaxCalls : tasks[c].state \in TaskStates
    /\ call \in 0..MaxCalls
    /\ pc \in {"idle", "init", "check", "submit", "L125", "L126", "L127", "L130", "L120", "done"}
    /\ vm_name \in Names /\ drs_behavior \in Behaviors
    /\ check_mode \in BOOLEAN /\ is_vcenter \in BOOLEAN
    /\ vm \in Inventory \cup {"None"}
    /\ existing \in Behaviors \cup {"absent", "unread"}
    /\ submitted \in 0..MaxCalls /\ totalSubmits \in 0..MaxCalls
    /\ observed \in TaskStates
    /\ polls \in 0..MaxPolls
    /\ result.kind \in {"none", "exit_json", "fail_json", "uncaught"}
    /\ sameArgs \in BOOLEAN /\ firstChanged \in 0..MaxCalls

Init ==
    /\ drsVmConfig \in [Inventory -> Behaviors \cup {"absent"}]
    /\ drsVmConfig["vm2"] \in {"absent", "partiallyAutomated"}
    /\ tasks = [c \in 1..MaxCalls |-> NoTask]
    /\ call = 0
    /\ pc = "idle"
    /\ vm_name = "vm1" /\ drs_behavior = "manual"
    /\ check_mode = FALSE /\ is_vcenter = TRUE
    /\ vm = "None"
    /\ existing = "unread"
    /\ request = NoRequest
    /\ submitted = 0
    /\ observed = "none"
    /\ polls = 0
    /\ result = NoResult
    /\ sameArgs = TRUE /\ firstChanged = 0 /\ totalSubmits = 0

\* ---- the program ----

\* main(), lines 133-143: a new process parses its parameters
Invoke ==
    /\ pc \in {"idle", "done"}
    /\ call < MaxCalls
    /\ \E name \in Names, want \in Behaviors, cm \in BOOLEAN, vc \in BOOLEAN :
        /\ vm_name' = name
        /\ drs_behavior' = want
        /\ check_mode' = cm
        /\ is_vcenter' = vc
        /\ sameArgs' = (sameArgs /\ (call = 0 \/ (name = vm_name /\ want = drs_behavior)))
    /\ call' = call + 1
    /\ pc' = "init"
    /\ vm' = "None"
    /\ existing' = "unread"
    /\ request' = NoRequest
    /\ submitted' = 0
    /\ observed' = "none"
    /\ polls' = 0
    /\ result' = NoResult
    /\ UNCHANGED <<remoteVars, firstChanged, totalSubmits>>

\* VmwareDrsOverride.__init__, lines 84-94
Construct_NoVcenterCheck ==
    /\ pc = "init"
    /\ vm' = get_vm(vm_name)
    /\ IF vm' = "None"
       THEN /\ result' = fail_json("VM not found")
            /\ pc' = "done"
       ELSE /\ result' = result
            /\ pc' = "check"
    /\ UNCHANGED <<remoteVars, argVars, histVars, existing, request, submitted, observed, polls>>
Construct ==
    /\ pc = "init"
    /\ vm' = get_vm(vm_name)
    /\ IF vm' = "None"
       THEN /\ result' = fail_json("VM not found")
            /\ pc' = "done"
       ELSE IF ~is_vcenter
       THEN /\ result' = fail_json("only supported in vCenter")
            /\ pc' = "done"
       ELSE /\ result' = result
            /\ pc' = "check"
    /\ UNCHANGED <<remoteVars, argVars, histVars, existing, request, submitted, observed, polls>>

\* set_drs_override, lines 97-102: read the current override and compare
CheckCurrent ==
    /\ pc = "check"
    /\ existing' = FindExisting(drsVmConfig, vm)
    /\ IF AlreadyDesired(existing', drs_behavior)
       THEN /\ result' = exit_json(FALSE, "already set")
            /\ pc' = "done"
       ELSE /\ result' = result
            /\ pc' = "submit"
    /\ UNCHANGED <<remoteVars, argVars, histVars, vm, request, submitted, observed, polls>>

\* set_drs_override, lines 104-118: build the spec, ReconfigureCluster_Task returns a task
Submit ==
    /\ pc = "submit"
    /\ request' = DrsVmConfigSpec(vm, drs_behavior)
    /\ submitted' = submitted + 1
    /\ totalSubmits' = totalSubmits + 1
    /\ tasks' = [tasks EXCEPT ![call] =
                    [state |-> "queued", key |-> request'.key, operation |-> request'.operation,
                     behavior |-> request'.behavior, msg |-> "none"]]
    /\ pc' = "L125"
    /\ UNCHANGED <<drsVmConfig, argVars, sameArgs, firstChanged, vm, existing, observed, polls, result>>

\* set_drs_override, lines 104-118 and 121-122: ReconfigureCluster_Task raises a
\* vmodl.MethodFault, which the handler turns into fail_json
SubmitFault ==
    /\ pc = "submit"
    /\ request' = DrsVmConfigSpec(vm, drs_behavior)
    /\ submitted' = submitted + 1
    /\ totalSubmits' = totalSubmits + 1
    /\ \E m \in Msgs : result' = fail_json(m)
    /\ pc' = "done"
    /\ UNCHANGED <<remoteVars, argVars, sameArgs, firstChanged, vm, existing, observed, polls>>

\* wait_for_task, line 125: read task.info.state, test the loop condition
WaitTest ==
    /\ pc = "L125"
    /\ pc' = IF StillRunning(tasks[call].state) THEN "L126" ELSE "L127"
    /\ UNCHANGED <<remoteVars, argVars, histVars, vm, existing, request, submitted, observed, polls, result>>

\* wait_for_task, line 126: the body of the loop is pass
WaitPass ==
    /\ pc = "L126"
    /\ polls' = Sat(polls)
    /\ pc' = "L125"
    /\ UNCHANGED <<remoteVars, argVars, histVars, vm, existing, request, submitted, observed, result>>

\* wait_for_task, lines 127-129: read task.info.state again
WaitResult ==
    /\ pc = "L127"
    /\ observed' = tasks[call].state
    /\ pc' = IF TaskSucceeded(observed') THEN "L120" ELSE "L130"
    /\ UNCHANGED <<remoteVars, argVars, histVars, vm, existing, request, submitted, polls, result>>

\* wait_for_task, line 130: raise Exception("Task failed: %s" % task.info.error.localizedMessage).
\* task.info.error is None unless the task is in state error, and then the
\* attribute access raises AttributeError.  Neither is a vmodl.MethodFault, so
\* the handler of line 121 does not catch it.
WaitRaise ==
    /\ pc = "L130"
    /\ result' = IF tasks[call].state = "error"
                 THEN uncaught(tasks[call].msg)
                 ELSE uncaught("AttributeError")
    /\ pc' = "done"
    /\ UNCHANGED <<remoteVars, argVars, histVars, vm, existing, request, submitted, observed, polls>>

\* set_drs_override, line 120: exit_json(changed=True)
ExitChanged ==
    /\ pc = "L120"
    /\ result' = exit_json(TRUE, "applied")
    /\ firstChanged' = IF firstChanged = 0 THEN call ELSE firstChanged
    /\ pc' = "done"
    /\ UNCHANGED <<remoteVars, argVars, sameArgs, totalSubmits, vm, existing, request, submitted, observed, polls>>

\* ---- the server ----

\* a queued task starts running
TaskStart ==
    \E c \in 1..MaxCalls :
        /\ tasks[c].state = "queued"
        /\ tasks' = [tasks EXCEPT ![c].state = "running"]
        /\ UNCHANGED <<drsVmConfig, argVars, histVars, pc, vm, existing, request, submitted, observed, polls, result>>

\* a running task completes: the cluster now holds the override of its spec
TaskSucceed ==
    \E c \in 1..MaxCalls :
        /\ tasks[c].state = "running"
        /\ tasks' = [tasks EXCEPT ![c].state = "success"]
        /\ drsVmConfig' = [drsVmConfig EXCEPT ![tasks[c].key] = tasks[c].behavior]
        /\ UNCHANGED <<argVars, histVars, pc, vm, existing, request, submitted, observed, polls, result>>

\* a running task fails with a localizedMessage; the cluster is unchanged
TaskFail ==
    \E c \in 1..MaxCalls, m \in Msgs :
        /\ tasks[c].state = "running"
        /\ tasks' = [tasks EXCEPT ![c].state = "error", ![c].msg = m]
        /\ UNCHANGED <<drsVmConfig, argVars, histVars, pc, vm, existing, request, submitted, observed, polls, result>>

Next ==
    \/ Invoke
    \/ Construct
    \/ CheckCurrent
    \/ Submit
    \/ SubmitFault
    \/ WaitTest
    \/ WaitPass
    \/ WaitResult
    \/ WaitRaise
    \/ ExitChanged
    \/ TaskStart
    \/ TaskSucceed
    \/ TaskFail

Spec == Init /\ [][Next]_vars

\* The process is scheduled until it ends; nothing obliges the caller to start
\* another invocation or the server to make progress on a task.
FairSpec ==
    /\ Spec
    /\ WF_vars(Construct) /\ WF_vars(CheckCurrent)
    /\ WF_vars(Submit \/ SubmitFault)
    /\ WF_vars(WaitTest) /\ WF_vars(WaitPass) /\ WF_vars(WaitResult)
    /\ WF_vars(WaitRaise) /\ WF_vars(ExitChanged)

\* ---- properties ----

\* the task the current invocation waits on has reached a terminal state
Terminal(state) == state \in {"success", "error"}

\* the invocation ended in __init__ with fail_json(m), having read and sent nothing
Stopped(m) ==
    /\ pc = "done"
    /\ result = fail_json(m)
    /\ existing = "unread"
    /\ submitted = 0 /\ request = NoRequest
    /\ task.state = "none"

\* C1: when the override read at the start of the invocation equals the desired
\* behaviour, the invocation makes no ReconfigureCluster_Task call, creates no
\* task, and ends with exit_json(changed=False) and no error; in every call.
C1_NoOp ==
    (existing # "unread" /\ existing = drs_behavior) =>
        /\ submitted = 0 /\ request = NoRequest
        /\ task.state = "none"
        /\ pc = "done"
        /\ result.kind = "exit_json" /\ ~result.changed

\* a second call in a row that found the override already as desired
C1_Witness ==
    /\ call = MaxCalls /\ pc = "done" /\ sameArgs
    /\ existing = drs_behavior /\ result.kind = "exit_json" /\ ~result.changed
    /\ totalSubmits = 0

\* C2: when the override read differs from the desired behaviour B, the
\* invocation makes exactly one ReconfigureCluster_Task call, whose spec carries
\* behaviour B for that VM, and never a second one, whatever becomes of the task.
C2_OneRequest ==
    /\ submitted <= 1
    /\ (existing # "unread" /\ existing # drs_behavior /\ pc # "submit") =>
            /\ submitted = 1
            /\ request.behavior = drs_behavior /\ request.key = vm
    /\ task.state # "none" =>
            /\ task.behavior = drs_behavior /\ task.key = vm
    /\ pc \in {"init", "check", "submit"} => submitted = 0

\* a mismatch whose task failed, after the loop has turned: still one request
C2_Witness ==
    /\ pc = "done" /\ existing = "manual" /\ drs_behavior = "fullyAutomated"
    /\ submitted = 1 /\ observed = "error" /\ polls >= 1

\* C3: if the task ends in state error with message M, the invocation ends with
\* a classified failure carrying M (fail_json), changed=False, and not with an
\* exception that no handler catches.
C3_FailureClassified ==
    (pc = "done" /\ observed = "error") =>
        /\ result.kind = "fail_json"
        /\ result.msg = task.msg
        /\ ~result.changed

\* C4: an invocation that waits on its task ends, even if the task never
\* reaches a terminal state.
C4_Terminates ==
    (pc \in {"L125", "L126"}) ~> (pc = "done" \/ Terminal(task.state))

\* C5: while the task is observed in a non-terminal state (queued or running)
\* the invocation keeps polling: it neither raises nor ends, so a queued task is
\* never reported as failed.
C5_KeepsPolling ==
    observed \in {"queued", "running"} => pc \in {"L125", "L126", "L127"}

\* C6: the invocation ends with changed=True if and only if it made a request
\* and then read state success from its task; never before that read, nor on
\* the no-op, failure or precondition paths.
C6_ChangedIffSucceeded ==
    /\ pc = "done" => (result.changed <=> (submitted = 1 /\ observed = "success"))
    /\ pc # "done" => ~result.changed
    /\ result.changed =>
            /\ result.kind = "exit_json"
            /\ task.state = "success"
            /\ existing # "unread" /\ existing # drs_behavior

\* changed=True after the loop has turned at least twice on a running task
C6_Witness ==
    /\ pc = "done" /\ result.changed /\ polls >= 2 /\ observed = "success"

\* C7: a VM that is not found ends the invocation with the not-found failure,
\* an endpoint that is not a vCenter ends it with the unsupported failure (the
\* VM lookup comes first); either way the override is not read, no request is
\* made, and changed is not reported.
C7_Preconditions ==
    (call > 0 /\ pc # "init") =>
        /\ get_vm(vm_name) = "None" => Stopped("VM not found")
        /\ (get_vm(vm_name) # "None" /\ ~is_vcenter) => Stopped("only supported in vCenter")
        /\ ~is_vcenter => (pc = "done" /\ result.kind = "fail_json" /\ submitted = 0)

\* an existing VM managed through an endpoint that is not a vCenter
C7_Witness ==
    /\ pc = "done" /\ vm = "vm1" /\ ~is_vcenter
    /\ result = fail_json("only supported in vCenter")

\* C8 (as amended): once an invocation has returned changed=True, every later
\* invocation with the same arguments makes no request and does not report
\* changed; if it gets to read the override it finds it as desired.
C8_Converged ==
    (firstChanged # 0 /\ call > firstChanged /\ sameArgs) =>
        /\ submitted = 0 /\ request = NoRequest
        /\ task.state = "none"
        /\ ~result.changed
        /\ pc \notin {"submit", "L125", "L126", "L127", "L130", "L120"}
        /\ existing # "unread" => (existing = drs_behavior /\ result.kind = "exit_json")

\* a later invocation after a successful one, reading the override as desired
C8_Witness ==
    /\ firstChanged = 1 /\ call = 2 /\ sameArgs /\ pc = "done"
    /\ existing = drs_behavior /\ totalSubmits = 1

\* C8 as stated: the above, and hence at most one request in the whole sequence
C8_AtMostOneEver ==
    /\ C8_Converged
    /\ (firstChanged # 0 /\ sameArgs) => totalSubmits <= 1

\* C9: a request creates an override (operation add) exactly when the VM had
\* none; an existing override that differs is changed with operation edit.
C9_AddOnlyWhenAbsent ==
    request # NoRequest =>
        /\ existing = "absent" => request.operation = "add"
        /\ existing # "absent" => request.operation = "edit"

\* C10: in check mode the invocation makes no ReconfigureCluster_Task call and
\* creates no task.
C10_CheckModeNoChange ==
    check_mode => (submitted = 0 /\ task.state = "none")

====
